---- MODULE Spec2Model ----
(***************************************************************************)
(* JaxRK: cross-validation index generation, selection matrices, batched   *)
(* submatrix inversion / Cholesky factorisation (jaxrk/utilities/cv.py),   *)
(* the regularisation check of the conditional operators                   *)
(* (jaxrk/models/conditional_operator.py) and the result checks of         *)
(* inducing_set (jaxrk/utilities/inducing.py).                             *)
(*                                                                         *)
(* All functions are pure.  A behaviour is one call: op is "none" until    *)
(* the call is made, and afterwards the state holds the function called    *)
(* (op), its arguments (args) and what the call produced (ret).            *)
(*                                                                         *)
(* Arrays are 1-based sequences holding the 0-based indices of the code.   *)
(* A float matrix is a record [den, num]: the matrix num / den with num an *)
(* integer matrix and den > 0; den = 0 stands for a matrix whose entries   *)
(* are all non-finite (inf / nan), which is what IEEE arithmetic leaves    *)
(* once an elimination step has divided by a zero pivot.                   *)
(***************************************************************************)
EXTENDS Integers, Sequences, FiniteSets

VARIABLES op, args, ret

vars == <<op, args, ret>>

\* Largest matrix dimension / sample count drawn for the inputs.
MaxN == 3

\* Largest number of cross-validation splits drawn for the inputs.
MaxSplits == 2

(***************************************************************************)
(* Array helpers (jax.numpy primitives used by cv.py)                      *)
(***************************************************************************)
Range(f) == {f[i] : i \in DOMAIN f}

\* np.arange(n)
Arange(n) == [i \in 1..n |-> i - 1]

\* Mutant of Delete: the position is taken as 1-based.
Delete_OneBased(val, i) ==
    [j \in 1..(Len(val) - 1) |-> IF j < i THEN val[j] ELSE val[j + 1]]

\* np.delete(val, i): the array without the element at 0-based position i
Delete(val, i) ==
    [j \in 1..(Len(val) - 1) |-> IF j <= i THEN val[j] ELSE val[j + 1]]

\* val.reshape(-1, 1)
ReshapeColumn(val) == [i \in 1..Len(val) |-> <<val[i]>>]

\* p[:n_train] and p[n_train:] with Python's clamping of the slice bound
Clamp(x, lo, hi) == IF x < lo THEN lo ELSE IF x > hi THEN hi ELSE x

SliceTo(p, n) == SubSeq(p, 1, Clamp(n, 0, Len(p)))

\* Mutant of SliceFrom: the validation slice starts one column early.
SliceFrom_Overlap(p, n) == SubSeq(p, Clamp(n - 1, 0, Len(p)) + 1, Len(p))

SliceFrom(p, n) == SubSeq(p, Clamp(n, 0, Len(p)) + 1, Len(p))

RECURSIVE Insert(_, _)
Insert(x, s) ==
    IF s = <<>> THEN <<x>>
    ELSE IF x <= Head(s) THEN <<x>> \o s
    ELSE <<Head(s)>> \o Insert(x, Tail(s))

RECURSIVE SortRow(_)
SortRow(s) == IF s = <<>> THEN <<>> ELSE Insert(Head(s), SortRow(Tail(s)))

\* Mutant of SortAxis1: the rows are left as given.
SortAxis1_NoSort(idcs) == idcs

\* np.sort(idcs, 1): every row ascending
SortAxis1(idcs) == [s \in DOMAIN idcs |-> SortRow(idcs[s])]

\* np.zeros((rows, cols))
Zeros(rows, cols) == [r \in 1..rows |-> [c \in 1..cols |-> 0]]

Transpose(A) ==
    IF Len(A) = 0 THEN <<>>
    ELSE [j \in 1..Len(A[1]) |-> [i \in 1..Len(A) |-> A[i][j]]]

RECURSIVE SumTo(_, _)
SumTo(f, n) == IF n = 0 THEN 0 ELSE f[n] + SumTo(f, n - 1)

\* A @ B on integer matrices
MatMul(A, B) ==
    [i \in 1..Len(A) |->
        [j \in 1..Len(B[1]) |->
            SumTo([k \in 1..Len(B) |-> A[i][k] * B[k][j]], Len(B))]]

(***************************************************************************)
(* loo_train_val and cv_train_val                                          *)
(***************************************************************************)
loo_train_val(n_orig) ==
    LET val == Arange(n_orig)
        train == [i \in 1..n_orig |-> Delete(val, val[i])]
    IN [train |-> train, val |-> ReshapeColumn(val)]

\* The permutations of arange(n): what random.permutation(key, n) can draw.
Permutations(n) ==
    {p \in [1..n -> 0..(n - 1)] : \A i, j \in 1..n : p[i] = p[j] => i = j}

\* p is the batch of permutations drawn from the split keys.
cv_train_val(n_orig, n_train, n_splits, p) ==
    [train |-> [s \in 1..n_splits |-> SliceTo(p[s], n_train)],
     val |-> [s \in 1..n_splits |-> SliceFrom(p[s], n_train)]]

(***************************************************************************)
(* idcs_to_selection_matr                                                  *)
(***************************************************************************)
\* Mutant of AtSet: an index outside the axis is clipped onto it.
AtSet_Clip(rval, split, r, c, n_orig) ==
    [rval EXCEPT ![split][r][Clamp(c, 0, n_orig - 1) + 1] = 1]

\* rval.at[split, r, c].set(1.0): a negative c counts from the end, and an
\* update whose index is still outside the axis is dropped.
AtSet(rval, split, r, c, n_orig) ==
    LET cc == IF c < 0 THEN c + n_orig ELSE c
    IN IF cc >= 0 /\ cc < n_orig
       THEN [rval EXCEPT ![split][r][cc + 1] = 1]
       ELSE rval

RECURSIVE ScatterFrom(_, _, _, _, _)
ScatterFrom(rval, idcs, n_orig, split, r) ==
    IF split > Len(idcs) THEN rval
    ELSE IF r > Len(idcs[split])
         THEN ScatterFrom(rval, idcs, n_orig, split + 1, 1)
         ELSE ScatterFrom(AtSet(rval, split, r, idcs[split][r], n_orig),
                          idcs, n_orig, split, r + 1)

\* Mutant of idcs_to_selection_matr: the test of idcs_sorted is inverted.
idcs_to_selection_matr_FlagInverted(n_orig, idcs, idcs_sorted) ==
    LET srt == IF idcs_sorted THEN SortAxis1(idcs) ELSE idcs
        rval == [s \in 1..Len(srt) |-> Zeros(Len(srt[s]), n_orig)]
    IN ScatterFrom(rval, srt, n_orig, 1, 1)

idcs_to_selection_matr(n_orig, idcs, idcs_sorted) ==
    LET srt == IF ~idcs_sorted THEN SortAxis1(idcs) ELSE idcs
        rval == [s \in 1..Len(srt) |-> Zeros(Len(srt[s]), n_orig)]
    IN ScatterFrom(rval, srt, n_orig, 1, 1)

(***************************************************************************)
(* Batched linear-algebra kernels                                          *)
(***************************************************************************)
\* A float matrix all of whose entries are non-finite.
NonFinite(rows, cols) == [den |-> 0, num |-> Zeros(rows, cols)]

\* An integer matrix as a float matrix.
Exact(M) == [den |-> 1, num |-> M]

\* sel @ inp @ sel.T for a 0/1 matrix sel and a float matrix inp; one
\* non-finite entry of inp reaches every entry of the product (0 * nan = nan).
SymMatmul(sel, inp) ==
    IF inp.den = 0 THEN NonFinite(Len(sel), Len(sel))
    ELSE [den |-> inp.den, num |-> MatMul(MatMul(sel, inp.num), Transpose(sel))]

\* vmap over sel with inp shared
sym_matmul_fixed_inp(sel, inp) == [s \in 1..Len(sel) |-> SymMatmul(sel[s], inp)]

\* Mutant of sym_matmul_variable_inp: sel is not mapped over, so every split
\* is multiplied with the first split's selection matrix.
sym_matmul_variable_inp_FixedSel(sel, inp) ==
    [s \in 1..Len(sel) |-> SymMatmul(sel[1], inp[s])]

\* vmap over sel and inp together
sym_matmul_variable_inp(sel, inp) ==
    [s \in 1..Len(sel) |-> SymMatmul(sel[s], inp[s])]

\* np.swapaxes(t, -1, -2)
SwapAxes(t) == [s \in 1..Len(t) |-> Transpose(t[s])]

\* M without row i and column j
Minor(M, i, j) ==
    [r \in 1..(Len(M) - 1) |->
        [c \in 1..(Len(M) - 1) |->
            M[IF r < i THEN r ELSE r + 1][IF c < j THEN c ELSE c + 1]]]

Sign(i) == IF i % 2 = 0 THEN 1 ELSE 0 - 1

RECURSIVE Det(_)
Det(M) ==
    IF Len(M) = 0 THEN 1
    ELSE SumTo([j \in 1..Len(M) |-> Sign(1 + j) * M[1][j] * Det(Minor(M, 1, j))],
               Len(M))

Adjugate(M) ==
    [i \in 1..Len(M) |-> [j \in 1..Len(M) |-> Sign(i + j) * Det(Minor(M, j, i))]]

Scale(c, M) == [i \in 1..Len(M) |-> [j \in 1..Len(M[i]) |-> c * M[i][j]]]

\* Mutant of Inv: a singular matrix is answered with the zero matrix.
Inv_ZeroForSingular(a) ==
    LET d == Det(a.num)
    IN IF a.den = 0 THEN NonFinite(Len(a.num), Len(a.num))
       ELSE IF d = 0 THEN Exact(Zeros(Len(a.num), Len(a.num)))
       ELSE [den |-> IF d > 0 THEN d ELSE 0 - d,
             num |-> Scale((IF d > 0 THEN 1 ELSE 0 - 1) * a.den, Adjugate(a.num))]

\* np.linalg.inv of jax.numpy: the inverse, and for a singular matrix no
\* error but a matrix of non-finite entries.
Inv(a) ==
    LET d == Det(a.num)
    IN IF a.den = 0 \/ d = 0 THEN NonFinite(Len(a.num), Len(a.num))
       ELSE [den |-> IF d > 0 THEN d ELSE 0 - d,
             num |-> Scale((IF d > 0 THEN 1 ELSE 0 - 1) * a.den, Adjugate(a.num))]

vinvert(batch) == [s \in 1..Len(batch) |-> Inv(batch[s])]

\* Largest r with r * r <= x
ISqrt(x) == IF x <= 0 THEN 0 ELSE CHOOSE r \in 0..x : r * r <= x /\ (r + 1) * (r + 1) > x

\* Entry (i, j), i >= j, of the lower factor, by the Cholesky-Banachiewicz
\* recurrence in integer arithmetic.
RECURSIVE CholEntry(_, _, _)
CholEntry(M, i, j) ==
    LET acc == SumTo([k \in 1..(j - 1) |-> CholEntry(M, i, k) * CholEntry(M, j, k)],
                     j - 1)
    IN IF i = j THEN ISqrt(M[i][i] - acc)
       ELSE LET d == CholEntry(M, j, j)
            IN IF d = 0 THEN 0 ELSE (M[i][j] - acc) \div d

CholFactor(M) ==
    [i \in 1..Len(M) |-> [j \in 1..Len(M) |-> IF i >= j THEN CholEntry(M, i, j) ELSE 0]]

\* Leading k x k block
Leading(M, k) == [i \in 1..k |-> [j \in 1..k |-> M[i][j]]]

\* Sylvester's criterion
PosDef(M) == \A k \in 1..Len(M) : Det(Leading(M, k)) > 0

\* The integer recurrence is the Cholesky factor exactly when it reproduces M.
HasIntegerFactor(M) == MatMul(CholFactor(M), Transpose(CholFactor(M))) = M

\* Mutant of Cholesky: lower=True is lost and the upper factor is returned.
Cholesky_Upper(a) ==
    IF a.den = 0 \/ ~PosDef(a.num) THEN NonFinite(Len(a.num), Len(a.num))
    ELSE Exact(Transpose(CholFactor(a.num)))

\* sp.linalg.cholesky(lower=True) of jax.scipy: the lower factor, and for a
\* matrix that is not positive definite no error but a matrix of nan.
Cholesky(a) ==
    IF a.den = 0 \/ ~PosDef(a.num) THEN NonFinite(Len(a.num), Len(a.num))
    ELSE Exact(CholFactor(a.num))

vcholesky(batch) == [s \in 1..Len(batch) |-> Cholesky(batch[s])]

(***************************************************************************)
(* invert_submatr and cholesky_submatr                                     *)
(***************************************************************************)
invert_submatr(gram, train_idcs, zerofill) ==
    LET train_sel_matr == idcs_to_selection_matr(Len(gram.num), train_idcs, FALSE)
        rval == vinvert(sym_matmul_fixed_inp(train_sel_matr, gram))
    IN IF zerofill
       THEN sym_matmul_variable_inp(SwapAxes(train_sel_matr), rval)
       ELSE rval

cholesky_submatr(gram, train_idcs, zerofill) ==
    LET train_sel_matr == idcs_to_selection_matr(Len(gram.num), train_idcs, FALSE)
        rval == vcholesky(sym_matmul_fixed_inp(train_sel_matr, gram))
    IN IF zerofill
       THEN sym_matmul_variable_inp(SwapAxes(train_sel_matr), rval)
       ELSE rval

(***************************************************************************)
(* Cmo, RidgeCmo, Cdo: the regularisation check and the work that follows  *)
(***************************************************************************)
\* regul.squeeze().shape: the shape without its axes of length 1
Squeeze(shape) == SelectSeq(shape, LAMBDA d : d # 1)

\* regul.size: the number of elements of an array of this shape
RECURSIVE Size(_)
Size(shape) == IF shape = <<>> THEN 1 ELSE Head(shape) * Size(Tail(shape))

\* The asserted condition:
\* regul.squeeze().size == 1 or regul.squeeze().shape[0] == len(inp_feat)
RegulAssert(shape, n) == Size(Squeeze(shape)) = 1 \/ Squeeze(shape)[1] = n

\* Whether an array of this shape broadcasts against the (n, n) matrix
\* np.eye(n): trailing axes are paired, and a pair must agree or hold a 1.
BroadcastsWithEye(shape, n) ==
    \A a \in 1..2 :
        a <= Len(shape) =>
            LET d == shape[Len(shape) - a + 1] IN d = n \/ d = 1 \/ n = 1

NoRegul == [given |-> FALSE, shape |-> <<>>]

AssertionError == [status |-> "AssertionError", work |-> <<>>]

Cmo(n, regul) ==
    IF regul.given /\ ~RegulAssert(regul.shape, n) THEN AssertionError
    ELSE [status |-> "validated", work |-> <<"CovOp", "Cov_solve", "CrossCovOp">>]

RidgeCmo(n, regul) ==
    IF ~regul.given
    THEN [status |-> "validated", work |-> <<"Cov_regul", "inner", "inv", "FiniteOp">>]
    ELSE IF ~RegulAssert(regul.shape, n) THEN AssertionError
    ELSE IF ~BroadcastsWithEye(regul.shape, n)
         THEN [status |-> "BroadcastError", work |-> <<"inner">>]
         ELSE [status |-> "validated", work |-> <<"inner", "inv", "FiniteOp">>]

Cdo(n, regul) ==
    IF regul.given /\ ~RegulAssert(regul.shape, n) THEN AssertionError
    ELSE LET mo == Cmo(n, regul)
         IN IF mo.status # "validated" THEN mo
            ELSE [status |-> "validated", work |-> mo.work \o <<"CovOp", "Cov_solve">>]

(***************************************************************************)
(* inducing_set: the checks around the optimiser call                      *)
(***************************************************************************)
Identity(N) == [i \in 1..N |-> [j \in 1..N |-> IF i = j THEN 1 ELSE 0]]

\* np.diag(lamb)
Diag(lamb) ==
    [i \in 1..Len(lamb) |-> [j \in 1..Len(lamb) |-> IF i = j THEN lamb[i] ELSE 0]]

MatSub(A, B) == [i \in 1..Len(A) |-> [j \in 1..Len(A[i]) |-> A[i][j] - B[i][j]]]

\* Mutant of HasInducingPoints: an empty selection passes.
HasInducingPoints_Geq(m) == m >= 0

\* The asserted condition m > 0
HasInducingPoints(m) == m > 0

Failed(msg) == [status |-> "AssertionError", msg |-> msg]

\* points_shape is points.shape, G the gram matrix k(points), opt the result
\* of minimize: its success flag and its x split into A and lamb.
inducing_set(points_shape, G, non_sparse_penalty, opt) ==
    IF ~(non_sparse_penalty > 0) THEN Failed("non_sparse_penalty > 0")
    ELSE IF ~(points_shape[1] > 1) THEN Failed("len(points) > 1")
    ELSE IF ~(Len(points_shape) = 2) THEN Failed("len(points.shape) == 2")
    ELSE IF ~opt.success THEN Failed("Optimization unsuccessfull")
    ELSE LET N == points_shape[1]
             I == Identity(N)
             selected == [i \in 1..N |-> opt.lamb[i] > 0]
             AL == MatMul(opt.A, Diag(opt.lamb))
             appr_matr == [i \in 1..N |-> IF selected[i] THEN I[i] ELSE AL[i]]
             fact == MatSub(I, appr_matr)
             m == Cardinality({i \in 1..N : selected[i]})
             FGF == MatMul(MatMul(fact, G), Transpose(fact))
             distances == [i \in 1..N |-> FGF[i][i]]
         IN IF ~HasInducingPoints(m) THEN Failed("No inducing points")
            ELSE [status |-> "ok",
                  val |-> [appr_matr |-> appr_matr, selected |-> selected,
                           distances |-> distances]]

(***************************************************************************)
(* Inputs                                                                  *)
(***************************************************************************)
Dims == 1..MaxN

SplitCounts == 1..MaxSplits

\* Index arrays of shape (S, k) over the values V.
Arrays(S, k, V) == [1..S -> [1..k -> V]]

\* Index values for the selection-matrix builder: the axis 0..N-1, the
\* negative indices -1 and -N, and one value beyond the axis on either side
\* of -N..N-1.
IdxVals(N) == (0..N) \cup {0 - 1, 0 - N, 0 - N - 1}

\* Shapes (S, k) of index arrays: at most MaxN + 1 cells.
Shapes == {sh \in SplitCounts \X (1..(MaxN + 1)) : sh[1] * sh[2] <= MaxN + 1}

InRange(N, idcs) ==
    \A s \in DOMAIN idcs : \A r \in DOMAIN idcs[s] :
        idcs[s][r] >= 0 /\ idcs[s][r] < N

\* Rows of k distinct indices of 0..N-1, in any order.
DistinctRows(N, k) ==
    {row \in [1..k -> 0..(N - 1)] : \A a, b \in 1..k : row[a] = row[b] => a = b}

\* train_idcs: S rows of k distinct indices each.
TrainIdcs(N) ==
    UNION {[1..sh[1] -> DistinctRows(N, sh[2])] : sh \in {x \in Shapes : x[2] <= N}}

\* Lower-triangular Toeplitz matrix with first column t.
LowerToeplitz(t) ==
    [i \in 1..Len(t) |-> [j \in 1..Len(t) |-> IF i >= j THEN t[i - j + 1] ELSE 0]]

\* First columns t of B: entries 0 or 1, constant from the third entry on.
FirstColumns(N) ==
    {t \in [1..N -> {0, 1}] : \A i \in 1..N : i > 3 => t[i] = t[3]}

\* Gram matrices B @ B.T of N feature vectors (the rows of B): symmetric
\* positive semidefinite, singular when t[1] = 0.
Grams(N) ==
    {Exact(MatMul(LowerToeplitz(t), Transpose(LowerToeplitz(t)))) : t \in FirstColumns(N)}

\* The submatrices cholesky_submatr factorises.
Submatrices(gram, train_idcs) ==
    sym_matmul_fixed_inp(idcs_to_selection_matr(Len(gram.num), train_idcs, FALSE), gram)

\* Largest number of axes drawn for a regul array.
MaxRank == 2

\* Shapes of regul: up to MaxRank axes of length 1..MaxN+1.
RegulShapes == UNION {[1..k -> 1..(MaxN + 1)] : k \in 0..MaxRank}

Reguls == {NoRegul} \cup {[given |-> TRUE, shape |-> sh] : sh \in RegulShapes}

\* Shapes of points: one to three axes, the second and third of length 1.
PointShapes == {<<n>> : n \in 0..MaxN} \cup {<<n, 1>> : n \in 0..MaxN}
                   \cup {<<n, 1, 1>> : n \in 0..MaxN}

\* What minimize can report: success or not, lamb at either end of its
\* bounds [0, 1], and A the identity, the zero matrix or the all-ones matrix.
OptResults(N) ==
    [success : BOOLEAN,
     lamb : [1..N -> {0, 1}],
     A : {Identity(N), Zeros(N, N), [i \in 1..N |-> [j \in 1..N |-> 1]]}]

\* The optimiser is reached only when the three argument checks pass.
OptReached(points_shape, non_sparse_penalty) ==
    non_sparse_penalty > 0 /\ points_shape[1] > 1 /\ Len(points_shape) = 2

NoOpt == [success |-> FALSE, lamb |-> <<>>, A |-> <<>>]

(***************************************************************************)
(* Operations                                                              *)
(***************************************************************************)
Init ==
    /\ op = "none"
    /\ args = [n_orig |-> 0]
    /\ ret = [status |-> "none"]

CallLoo ==
    /\ op = "none"
    /\ \E n \in 0..MaxN :
        /\ op' = "loo_train_val"
        /\ args' = [n_orig |-> n]
        /\ ret' = [status |-> "ok", val |-> loo_train_val(n)]

CallCv ==
    /\ op = "none"
    /\ \E n \in Dims, S \in SplitCounts, n_train \in 0..(MaxN + 1) :
        \E p \in [1..S -> Permutations(n)] :
            /\ op' = "cv_train_val"
            /\ args' = [n_orig |-> n, n_train |-> n_train, n_splits |-> S, p |-> p]
            /\ ret' = [status |-> "ok", val |-> cv_train_val(n, n_train, S, p)]

CallSelection ==
    /\ op = "none"
    /\ \E N \in Dims, sh \in Shapes, idcs_sorted \in BOOLEAN :
        \E idcs \in Arrays(sh[1], sh[2], IdxVals(N)) :
            /\ op' = "idcs_to_selection_matr"
            /\ args' = [n_orig |-> N, idcs |-> idcs, idcs_sorted |-> idcs_sorted]
            /\ ret' = [status |-> "ok",
                       val |-> idcs_to_selection_matr(N, idcs, idcs_sorted)]

CallInvert ==
    /\ op = "none"
    /\ \E N \in Dims, zerofill \in BOOLEAN :
        \E gram \in Grams(N), train_idcs \in TrainIdcs(N) :
            /\ op' = "invert_submatr"
            /\ args' = [gram |-> gram, train_idcs |-> train_idcs, zerofill |-> zerofill]
            /\ ret' = [status |-> "ok",
                       val |-> invert_submatr(gram, train_idcs, zerofill)]

\* The factor of a positive definite submatrix is drawn only where its
\* entries are integers, so that the model holds it exactly.
CallCholesky ==
    /\ op = "none"
    /\ \E N \in Dims, zerofill \in BOOLEAN :
        \E gram \in Grams(N), train_idcs \in TrainIdcs(N) :
            /\ \A s \in 1..Len(train_idcs) :
                  LET sub == Submatrices(gram, train_idcs)[s].num
                  IN PosDef(sub) => HasIntegerFactor(sub)
            /\ op' = "cholesky_submatr"
            /\ args' = [gram |-> gram, train_idcs |-> train_idcs, zerofill |-> zerofill]
            /\ ret' = [status |-> "ok",
                       val |-> cholesky_submatr(gram, train_idcs, zerofill)]

CallCmo ==
    /\ op = "none"
    /\ \E n \in Dims, regul \in Reguls :
        /\ op' = "Cmo"
        /\ args' = [n |-> n, regul |-> regul]
        /\ ret' = Cmo(n, regul)

CallRidgeCmo ==
    /\ op = "none"
    /\ \E n \in Dims, regul \in Reguls :
        /\ op' = "RidgeCmo"
        /\ args' = [n |-> n, regul |-> regul]
        /\ ret' = RidgeCmo(n, regul)

CallCdo ==
    /\ op = "none"
    /\ \E n \in Dims, regul \in Reguls :
        /\ op' = "Cdo"
        /\ args' = [n |-> n, regul |-> regul]
        /\ ret' = Cdo(n, regul)

CallInducingSet ==
    /\ op = "none"
    /\ \E points_shape \in PointShapes, non_sparse_penalty \in {0, 1} :
        \E G \in (IF points_shape[1] > 0 THEN Grams(points_shape[1]) ELSE {Exact(<<>>)}) :
            \E opt \in (IF OptReached(points_shape, non_sparse_penalty)
                        THEN OptResults(points_shape[1]) ELSE {NoOpt}) :
                /\ op' = "inducing_set"
                /\ args' = [points_shape |-> points_shape, G |-> G.num,
                            non_sparse_penalty |-> non_sparse_penalty, opt |-> opt]
                /\ ret' = inducing_set(points_shape, G.num, non_sparse_penalty, opt)

Next ==
    \/ CallLoo
    \/ CallCv
    \/ CallSelection
    \/ CallInvert
    \/ CallCholesky
    \/ CallCmo
    \/ CallRidgeCmo
    \/ CallCdo
    \/ CallInducingSet

Spec == Init /\ [][Next]_vars

(***************************************************************************)
(* Properties                                                              *)
(***************************************************************************)
\* The r-th smallest value of a row (r counts from 1), by counting the
\* entries below and up to it.
RthSmallest(row, r) ==
    CHOOSE v \in Range(row) :
        /\ Cardinality({j \in DOMAIN row : row[j] < v}) < r
        /\ r <= Cardinality({j \in DOMAIN row : row[j] <= v})

\* The index that row r of split s of the selection matrix stands for.
PickedIndex(idcs, idcs_sorted, s, r) ==
    IF idcs_sorted THEN idcs[s][r] ELSE RthSmallest(idcs[s], r)

\* A matrix with pairwise different entries.
Probe(N) == [i \in 1..N |-> [j \in 1..N |-> N * (i - 1) + j]]

IsSelectionCall == op = "idcs_to_selection_matr"

TensorShape(t, S, k, N) ==
    /\ Len(t) = S
    /\ \A s \in 1..S :
        /\ Len(t[s]) = k
        /\ \A r \in 1..k : Len(t[s][r]) = N

\* C1: for indices in [0,N) the selection tensor has shape (num_splits, k, N),
\* entry [s,r,c] is 1 iff c is the r-th index of split s (the r-th smallest
\* when idcs_sorted is false, the r-th as given when it is true) and 0
\* otherwise; every row holds exactly one 1 and sel[s] @ M picks those rows of M.
C1_SelectionMatrix ==
    (IsSelectionCall /\ InRange(args.n_orig, args.idcs)) =>
        LET N == args.n_orig
            S == Len(args.idcs)
            k == Len(args.idcs[1])
            sel == ret.val
            pick(s, r) == PickedIndex(args.idcs, args.idcs_sorted, s, r)
        IN /\ ret.status = "ok"
           /\ TensorShape(sel, S, k, N)
           /\ \A s \in 1..S : \A r \in 1..k :
                /\ \A c \in 1..N : sel[s][r][c] = (IF c - 1 = pick(s, r) THEN 1 ELSE 0)
                /\ Cardinality({c \in 1..N : sel[s][r][c] = 1}) = 1
           /\ \A s \in 1..S :
                MatMul(sel[s], Probe(N)) = [r \in 1..k |-> Probe(N)[pick(s, r) + 1]]

\* C1 witness: an unsorted row of three in-range indices, sorted by the call.
C1_Witness ==
    /\ IsSelectionCall
    /\ InRange(args.n_orig, args.idcs)
    /\ ~args.idcs_sorted
    /\ Len(args.idcs[1]) = 3
    /\ args.idcs[1][1] > args.idcs[1][2]
    /\ args.idcs[1][2] > args.idcs[1][3]
    /\ ret.val[1][1][args.idcs[1][3] + 1] = 1

OutOfRangeCells ==
    {c \in (DOMAIN args.idcs) \X (DOMAIN args.idcs[1]) :
        args.idcs[c[1]][c[2]] < 0 \/ args.idcs[c[1]][c[2]] >= args.n_orig}

\* C2 as stated: the call fails and returns no selection matrix whenever an
\* index is negative or >= N.
C2_OutOfRangeFails ==
    (IsSelectionCall /\ OutOfRangeCells # {}) =>
        (ret.status # "ok" /\ "val" \notin DOMAIN ret)

\* C2 as amended: an index outside [0,N) raises no error; the tensor of shape
\* (num_splits, k, N) is returned, with the 1 of an index c in [-N,0) at
\* column N + c and with an all-zero row for an index c >= N or c < -N.
C2_OutOfRangeDropped ==
    (IsSelectionCall /\ OutOfRangeCells # {}) =>
        LET N == args.n_orig
            S == Len(args.idcs)
            k == Len(args.idcs[1])
            sel == ret.val
            pick(s, r) == PickedIndex(args.idcs, args.idcs_sorted, s, r)
        IN /\ ret.status = "ok"
           /\ TensorShape(sel, S, k, N)
           /\ \A s \in 1..S : \A r \in 1..k : \A c \in 1..N :
                sel[s][r][c] =
                    (IF pick(s, r) = c - 1 \/ (pick(s, r) < 0 /\ pick(s, r) + N = c - 1)
                     THEN 1 ELSE 0)
           /\ \A s \in 1..S : \A r \in 1..k :
                (pick(s, r) >= N \/ pick(s, r) < 0 - N) =>
                    \A c \in 1..N : sel[s][r][c] = 0

\* C2 witness: one index beyond the axis and one negative index in a call
\* that returned a tensor.
C2_Witness ==
    /\ IsSelectionCall
    /\ args.n_orig >= 2
    /\ \E c \in OutOfRangeCells : args.idcs[c[1]][c[2]] >= args.n_orig
    /\ \E c \in OutOfRangeCells : args.idcs[c[1]][c[2]] = 0 - 1
    /\ ret.status = "ok"
    /\ \E s \in DOMAIN ret.val : \E r \in DOMAIN ret.val[s] :
          \A c \in 1..args.n_orig : ret.val[s][r][c] = 0

\* C3: for n > 1, train has shape (n, n-1) with row i the indices of [0,n)
\* other than i in ascending order, val has shape (n, 1) with row i = [i];
\* each row's train and val together partition [0,n).
C3_LeaveOneOut ==
    (op = "loo_train_val" /\ args.n_orig > 1) =>
        LET n == args.n_orig
            train == ret.val.train
            val == ret.val.val
        IN /\ Len(train) = n
           /\ Len(val) = n
           /\ \A i \in 1..n :
                /\ Len(train[i]) = n - 1
                /\ Range(train[i]) = (0..(n - 1)) \ {i - 1}
                /\ \A a, b \in 1..(n - 1) : a < b => train[i][a] < train[i][b]
                /\ val[i] = <<i - 1>>
                /\ Range(train[i]) \cap Range(val[i]) = {}
                /\ Range(train[i]) \cup Range(val[i]) = 0..(n - 1)

\* C3 witness: leave-one-out over three samples, with the middle one left out
\* of the second row.
C3_Witness ==
    /\ op = "loo_train_val"
    /\ args.n_orig = 3
    /\ ret.val.train[2] = <<0, 2>>
    /\ ret.val.val[2] = <<1>>

\* C4: for 0 < n_train < n, train has shape (S, n_train), val has shape
\* (S, n - n_train), and in every row train and val are disjoint and hold each
\* index of [0,n) exactly once.
C4_CvPartition ==
    (op = "cv_train_val" /\ 0 < args.n_train /\ args.n_train < args.n_orig) =>
        LET n == args.n_orig
            train == ret.val.train
            val == ret.val.val
        IN /\ Len(train) = args.n_splits
           /\ Len(val) = args.n_splits
           /\ \A s \in 1..args.n_splits :
                /\ Len(train[s]) = args.n_train
                /\ Len(val[s]) = n - args.n_train
                /\ Range(train[s]) \cap Range(val[s]) = {}
                /\ Range(train[s]) \cup Range(val[s]) = 0..(n - 1)
                /\ \A x \in 0..(n - 1) :
                      Cardinality({j \in DOMAIN train[s] : train[s][j] = x})
                        + Cardinality({j \in DOMAIN val[s] : val[s][j] = x}) = 1

\* C4 witness: two splits of three samples drawn as different permutations,
\* two columns to train and one to val.
C4_Witness ==
    /\ op = "cv_train_val"
    /\ args.n_orig = 3
    /\ args.n_train = 2
    /\ args.n_splits = 2
    /\ args.p[1] # args.p[2]
    /\ ret.val.train[1] = <<2, 0>>
    /\ ret.val.val[1] = <<1>>

\* The indices of a set in ascending order, each placed by the number of
\* smaller indices.
Asc(S) ==
    [r \in 1..Cardinality(S) |-> CHOOSE v \in S : Cardinality({u \in S : u < v}) = r - 1]

\* The rows and columns q of M, in the order of q.
Extract(M, q) == [r \in 1..Len(q) |-> [c \in 1..Len(q) |-> M[q[r] + 1][q[c] + 1]]]

IsSubmatrCall == op \in {"invert_submatr", "cholesky_submatr"}

\* Index set of split s, and the submatrix of gram it selects in ascending order.
IdxSet(s) == Range(args.train_idcs[s])

SubAsc(s) == Extract(args.gram.num, Asc(IdxSet(s)))

IsSquare(M, n) == Len(M) = n /\ \A i \in 1..n : Len(M[i]) = n

\* a is finite and a @ M = M @ a = I.
IsInverseOf(a, M) ==
    /\ a.den > 0
    /\ MatMul(a.num, M) = Scale(a.den, Identity(Len(M)))
    /\ MatMul(M, a.num) = Scale(a.den, Identity(Len(M)))

\* Entry (i, j) of a is the number zero.
EntryIsZero(a, i, j) == a.den > 0 /\ a.num[i][j] = 0

\* a is N x N and zero at every (i, j) with i or j outside S.
ZeroOutside(a, S, N) ==
    /\ IsSquare(a.num, N)
    /\ \A i, j \in 1..N : (i - 1 \notin S \/ j - 1 \notin S) => EntryIsZero(a, i, j)

\* The entries of a at the coordinates of S, in ascending order.
BlockAt(a, S) == [den |-> a.den, num |-> Extract(a.num, Asc(S))]

SingularSplits ==
    {s \in 1..Len(args.train_idcs) : Det(SubAsc(s)) = 0}

IsCondOpCall == op \in {"Cmo", "RidgeCmo", "Cdo"}

\* A single element, or one axis of length n next to axes of length 1.
ScalarOrMatchingVector(shape, n) == Size(shape) = 1 \/ Squeeze(shape) = <<n>>

\* C7: a given regul is accepted only if it is a scalar or a vector of length
\* len(inp_feat); every other shape ends in an assertion failure before any
\* covariance operator is constructed, any solve is run or any matrix inverted.
C7_RegulShapeChecked ==
    (IsCondOpCall /\ args.regul.given) =>
        /\ ret.status # "AssertionError" => ScalarOrMatchingVector(args.regul.shape, args.n)
        /\ ~ScalarOrMatchingVector(args.regul.shape, args.n) =>
              (ret.status = "AssertionError" /\ ret.work = <<>>)

IsInducingCall == op = "inducing_set"

NoneSelected == \A i \in DOMAIN args.opt.lamb : ~(args.opt.lamb[i] > 0)

\* C8: inducing_set returns a result only if the optimiser reported success
\* and some lambda is positive; on non-convergence, or with no point selected,
\* it ends in an assertion failure and returns nothing.
C8_InducingSetChecks ==
    IsInducingCall =>
        /\ ret.status = "ok" => (args.opt.success /\ ~NoneSelected)
        /\ (~args.opt.success \/ NoneSelected) =>
              (ret.status = "AssertionError" /\ "val" \notin DOMAIN ret)

\* C8 witness: the optimiser reports success with every lambda at zero, and
\* the call fails on the check of the selection.
C8_Witness ==
    /\ IsInducingCall
    /\ OptReached(args.points_shape, args.non_sparse_penalty)
    /\ args.opt.success
    /\ NoneSelected
    /\ ret.status = "AssertionError"
    /\ ret.msg = "No inducing points"

IsLower(M) == \A i, j \in 1..Len(M) : i < j => M[i][j] = 0

\* L is the lower Cholesky factor of M.
IsCholeskyOf(L, M) ==
    /\ IsLower(L)
    /\ \A i \in 1..Len(L) : L[i][i] > 0
    /\ MatMul(L, Transpose(L)) = M

\* C9: with distinct in-range indices and positive definite submatrices, the
\* zero-filled result of each split holds the split's lower Cholesky factor at
\* the coordinates of its indices in ascending order and zero elsewhere, and
\* is lower triangular.
C9_ZerofillCholesky ==
    (/\ op = "cholesky_submatr"
     /\ args.zerofill
     /\ \A s \in 1..Len(args.train_idcs) : PosDef(SubAsc(s))) =>
        \A s \in 1..Len(args.train_idcs) :
            /\ ret.val[s].den = 1
            /\ ZeroOutside(ret.val[s], IdxSet(s), Len(args.gram.num))
            /\ IsCholeskyOf(BlockAt(ret.val[s], IdxSet(s)).num, SubAsc(s))
            /\ IsLower(ret.val[s].num)

\* C9 witness: indices 2 and 0 of a 3 x 3 gram, listed in descending order,
\* whose factor has a non-zero entry below the diagonal, embedded at (2, 0).
C9_Witness ==
    /\ op = "cholesky_submatr"
    /\ args.zerofill
    /\ Len(args.gram.num) = 3
    /\ args.train_idcs = <<<<2, 0>>>>
    /\ PosDef(SubAsc(1))
    /\ ret.val[1].den = 1
    /\ ret.val[1].num[3][1] # 0
    /\ ret.val[1].num[2] = <<0, 0, 0>>

\* train_idcs with every row in ascending order.
AscRows(idcs) == [s \in 1..Len(idcs) |-> Asc(Range(idcs[s]))]

\* C10: the result of invert_submatr and cholesky_submatr is the result for
\* the ascending rows, whatever the order inside the rows of train_idcs and
\* for both values of zerofill; without zero-fill, row and column r of a
\* split's k x k matrix belong to the split's r-th smallest index.
C10_OrderInsensitive ==
    IsSubmatrCall =>
        /\ op = "invert_submatr" =>
              ret.val = invert_submatr(args.gram, AscRows(args.train_idcs), args.zerofill)
        /\ op = "cholesky_submatr" =>
              ret.val = cholesky_submatr(args.gram, AscRows(args.train_idcs), args.zerofill)
        /\ ~args.zerofill =>
              \A s \in 1..Len(args.train_idcs) :
                  /\ (op = "invert_submatr" /\ Det(SubAsc(s)) # 0) =>
                        IsInverseOf(ret.val[s], SubAsc(s))
                  /\ (op = "cholesky_submatr" /\ PosDef(SubAsc(s))) =>
                        IsCholeskyOf(ret.val[s].num, SubAsc(s))

\* C10 witness: a row listed in descending order whose inverse, without
\* zero-fill, differs from the inverse of the submatrix in the listed order.
C10_Witness ==
    /\ op = "invert_submatr"
    /\ ~args.zerofill
    /\ Len(args.train_idcs[1]) = 2
    /\ args.train_idcs[1][1] > args.train_idcs[1][2]
    /\ Det(SubAsc(1)) # 0
    /\ ret.val[1].num[1][1] # ret.val[1].num[2][2]
    /\ ~IsInverseOf(ret.val[1], Extract(args.gram.num, args.train_idcs[1]))

====
